---- MODULE Spec2Model ----
(***************************************************************************)
(* Execution phase of the zkVM: Executor::run / step / advance / split of  *)
(* risc0/zkvm/src/exec/mod.rs, driven over small guest programs.           *)
(*                                                                         *)
(* The Executor is modelled from mod.rs.  MemoryMonitor, MemoryImage,      *)
(* OpCode, Loader and ExecutorEnv live in other files of the repository;   *)
(* they are modelled from their description in spec.md.                    *)
(* Option<T> is modelled as a sequence of length 0 (None) or 1 (Some).     *)
(***************************************************************************)
EXTENDS Integers, Sequences, FiniteSets, TLC

----------------------------------------------------------------------------
(* Bounds of the model *)

\* number of instruction slots of the guest program
ProgLen == 2
\* a run is not explored further once this many segments are in flight
MaxSegments == 3
\* number of calls of Executor::run explored
MaxRuns == 2
\* number of times the syscall handler may fail
MaxHandlerErrors == 1
\* env.segment_limit_po2
SegmentLimitPo2 == 8
\* the finite env.session_limit explored next to "no limit"
SessionLimitSmall == 300
\* iterations of the guest's counted loop
LoopCount == 120
\* the handler fails, if at all, on its first call or after this many calls
HandlerFailCall == 8

----------------------------------------------------------------------------
(* Program constants *)

SHA_CYCLES == 72
ZK_CYCLES == 8
WORD_SIZE == 4
CYCLES_PER_PAGE == 3
InitCycles == 64
FiniCycles == 8

\* page indices: the code page, the data page, the page of syscall names
CodePage == 0
DataPage == 1
NamePage == 2

None == <<>>
Some(x) == <<x>>

RECURSIVE Pow2(_)
Pow2(n) == IF n = 0 THEN 1 ELSE 2 * Pow2(n - 1)

----------------------------------------------------------------------------
(* Guest instructions.  An instruction is what OpCode::decode and the      *)
(* registers read by the ecall see: its major type and, for an ecall, the  *)
(* values the guest has put in T0, A0, A1, A2 and A4.                       *)

Insn(major, t0, a0, a1, a2, a4) ==
    [major |-> major, t0 |-> t0, a0 |-> a0, a1 |-> a1, a2 |-> a2, a4 |-> a4]

IllegalInsn == Insn("ILLEGAL", "-", "-", 0, "-", 0)

InsnSet ==
    { Insn("LOAD", "-", "-", 0, "-", 0),
      Insn("STORE", "-", "-", 0, "-", 0),
      Insn("LOOP", "-", "-", 0, "-", 0),
      Insn("JAL", "-", "-", 0, "-", 0),
      Insn("ECALL", "HALT", "TERMINATE", 0, "-", 0),
      Insn("ECALL", "HALT", "PAUSE", 0, "-", 0),
      Insn("ECALL", "HALT", "OTHER", 0, "-", 0),
      Insn("ECALL", "OUTPUT", "-", 0, "-", 0),
      Insn("ECALL", "SOFTWARE", "-", 5, "known", 0),
      Insn("ECALL", "SOFTWARE", "-", 0, "known", 0),
      Insn("ECALL", "SOFTWARE", "-", 1, "unknown", 0),
      Insn("ECALL", "SHA", "-", 0, "-", 1),
      Insn("ECALL", "OTHER", "-", 0, "-", 0),
      IllegalInsn }

\* execution can go on to the next slot after this instruction
FallsThrough(insn) ==
    \/ insn.major \in {"LOAD", "STORE", "LOOP"}
    \/ /\ insn.major = "ECALL"
       /\ \/ insn.t0 \in {"OUTPUT", "SHA"}
          \/ insn.t0 = "HALT" /\ insn.a0 = "PAUSE"
          \/ insn.t0 = "SOFTWARE" /\ insn.a2 = "known"

\* the guest programs: every slot that can be reached holds any instruction,
\* the slots that cannot be reached hold the zero word
Programs ==
    { p \in [0 .. ProgLen - 1 -> InsnSet] :
        \A i \in 0 .. ProgLen - 1 :
            ~FallsThrough(p[i]) =>
                \A j \in 0 .. ProgLen - 1 : j > i => p[j] = IllegalInsn }

\* guest programs one slot longer: a loop at the entry point, then any
\* program of Programs.  The loop runs long enough for a segment to split
\* before the rest of the program is reached
RetryPrograms ==
    { [i \in 0 .. ProgLen |->
          IF i = 0 THEN Insn("LOOP", "-", "-", 0, "-", 0) ELSE p[i - 1]] :
      p \in Programs }

\* OpCode::decode: base cycles per major class
OpCodeCycles(insn) == 1

\* ExitCode
ExitCode(tag, n) == [tag |-> tag, n |-> n]

\* OpCodeResult::new
OpCodeResult(pc, exit_code, extra_cycles, syscall) ==
    [pc |-> pc, exit_code |-> exit_code, extra_cycles |-> extra_cycles,
     syscall |-> syscall]

----------------------------------------------------------------------------
(* MemoryImage *)

ImageRoot(image) == [mem |-> image.mem, regs |-> image.regs]

hash_pages(image) == [image EXCEPT !.root = ImageRoot(image)]

get_root(image) == image.root

NewImage(prog) ==
    hash_pages([code |-> prog,
                mem |-> [p \in {DataPage} |-> 0],
                regs |-> [r \in {"rd", "cnt", "a0", "a1"} |-> 0],
                root |-> <<>>])

----------------------------------------------------------------------------
(* MemoryMonitor *)

NoFaults == [reads |-> {}, writes |-> {}]

NewMonitor(image) ==
    [image |-> image,
     faults |-> NoFaults,
     pending_faults |-> NoFaults,
     session_faults |-> NoFaults,
     pending_writes |-> <<>>,
     syscalls |-> <<>>,
     trace_writes |-> <<>>,
     op_result |-> None]

\* a load through the monitor: the page becomes a pending read fault
load_page(m, page) ==
    [m EXCEPT !.pending_faults.reads = @ \cup {page}]

\* load_u32(pc): the instruction fetch
load_u32(m, pc) ==
    LET idx == pc \div WORD_SIZE
        m1 == load_page(m, CodePage)
    IN [m |-> m1,
        insn |-> IF idx \in DOMAIN m.image.code THEN m.image.code[idx]
                 ELSE IllegalInsn]

\* store_region / store of a word: buffered until commit
store_region(m, page, value) ==
    [m EXCEPT !.pending_faults.writes = @ \cup {page},
              !.pending_writes = Append(@, [kind |-> "mem", at |-> page, value |-> value]),
              !.trace_writes = Append(@, [ev |-> "MemorySet", at |-> page, value |-> value])]

store_register(m, reg, value) ==
    [m EXCEPT !.pending_writes = Append(@, [kind |-> "reg", at |-> reg, value |-> value]),
              !.trace_writes = Append(@, [ev |-> "RegisterSet", at |-> reg, value |-> value])]

save_op(m, op_result) == [m EXCEPT !.op_result = Some(op_result)]

restore_op(m) == m.op_result

RECURSIVE ApplyWrites(_, _)
ApplyWrites(image, ws) ==
    IF ws = <<>> THEN image
    ELSE LET w == Head(ws)
             img == IF w.kind = "mem"
                    THEN [image EXCEPT !.mem[w.at] = w.value]
                    ELSE [image EXCEPT !.regs[w.at] = w.value]
         IN ApplyWrites(img, Tail(ws))

FaultUnion(f, g) == [reads |-> f.reads \cup g.reads, writes |-> f.writes \cup g.writes]

\* commit: finalize the current instruction
commit(m, cycle) ==
    [m EXCEPT !.image = ApplyWrites(@, m.pending_writes),
              !.faults = FaultUnion(@, m.pending_faults),
              !.session_faults = FaultUnion(@, m.pending_faults),
              !.pending_faults = NoFaults,
              !.pending_writes = <<>>,
              !.trace_writes = <<>>,
              !.syscalls = IF m.op_result # None THEN @ \o m.op_result[1].syscall ELSE @,
              !.op_result = None]

FaultCycles(n) == n * (1 + CYCLES_PER_PAGE)

total_fault_cycles(m) ==
    FaultCycles(Cardinality(m.faults.reads)) + FaultCycles(Cardinality(m.faults.writes))

total_pending_fault_cycles(m) ==
    FaultCycles(Cardinality(m.faults.reads \cup m.pending_faults.reads))
    + FaultCycles(Cardinality(m.faults.writes \cup m.pending_faults.writes))

total_page_read_cycles(m) == FaultCycles(Cardinality(m.faults.reads))

clear_segment(m) == [m EXCEPT !.faults = NoFaults, !.syscalls = <<>>]

clear_session(m) == [m EXCEPT !.session_faults = NoFaults]

----------------------------------------------------------------------------
(* State *)

VARIABLES
    \* fields of Executor
    pre_image, monitor, pre_pc, pc, body_cycles, segment_cycle, segments,
    insn_counter,
    \* env.session_limit: None or Some(n)
    session_limit,
    \* the syscall handler's own state: calls received, failures so far
    hcalls, herrs,
    \* the Journal buffer handed to the guest's JOURNAL descriptor
    journal,
    \* position of the caller: [state, n] with n the calls of run so far
    run,
    \* what the last call of run gave back
    result,
    \* history: the last call of step, the instructions committed since the
    \* last finalization, the syscall records the handler has given, the
    \* syscall records of the Sessions returned, what the trace callback has
    \* received
    last, seg_log, issued, delivered, trace

vars == <<pre_image, monitor, pre_pc, pc, body_cycles, segment_cycle, segments,
          insn_counter, session_limit, hcalls, herrs, journal, run, result,
          last, seg_log, issued, delivered, trace>>

Self ==
    [pre_image |-> pre_image, monitor |-> monitor, pre_pc |-> pre_pc, pc |-> pc,
     body_cycles |-> body_cycles, segment_cycle |-> segment_cycle,
     segments |-> segments, insn_counter |-> insn_counter]

SetSelf(s) ==
    /\ pre_image' = s.pre_image
    /\ monitor' = s.monitor
    /\ pre_pc' = s.pre_pc
    /\ pc' = s.pc
    /\ body_cycles' = s.body_cycles
    /\ segment_cycle' = s.segment_cycle
    /\ segments' = s.segments
    /\ insn_counter' = s.insn_counter

----------------------------------------------------------------------------
(* ExecutorEnv *)

get_segment_limit == Pow2(SegmentLimitPo2)

\* align_up(addr, align): addr rounded up to a multiple of align
align_up(addr, align) == ((addr + align - 1) \div align) * align

\* next_power_of_two and log2_ceil
RECURSIVE next_power_of_two_from(_, _)
next_power_of_two_from(n, p) == IF p >= n THEN p ELSE next_power_of_two_from(n, 2 * p)
next_power_of_two(n) == next_power_of_two_from(n, 1)

RECURSIVE log2_ceil_from(_, _)
log2_ceil_from(n, k) == IF Pow2(k) >= n THEN k ELSE log2_ceil_from(n, k + 1)
log2_ceil(n) == log2_ceil_from(n, 0)

----------------------------------------------------------------------------
(* Executor: cycle accounting *)

total_cycles(s) ==
    InitCycles + total_fault_cycles(s.monitor) + s.body_cycles + FiniCycles
    + SHA_CYCLES + ZK_CYCLES

total_pending_cycles(s, opcode) ==
    InitCycles + total_pending_fault_cycles(s.monitor) + opcode.cycles
    + s.body_cycles + FiniCycles + SHA_CYCLES + ZK_CYCLES

\* session_cycle that forgets the segments already produced
session_cycle_of_segment_only(s) == s.segment_cycle

session_cycle(s) == Len(s.segments) * get_segment_limit + s.segment_cycle

\* self.session_cycle() > self.env.get_session_limit()
SessionLimitExceeded(s) ==
    /\ session_limit # None
    /\ session_cycle(s) > session_limit[1]

----------------------------------------------------------------------------
(* Executor: ecalls.  Each yields [ok, err, self, op, called]: the Result, *)
(* the executor after the call, and whether the handler was invoked.       *)

EcallOk(s, op, called) == [ok |-> TRUE, err |-> "", self |-> s, op |-> op, called |-> called]
EcallErr(s, err, called) ==
    [ok |-> FALSE, err |-> err, self |-> s,
     op |-> OpCodeResult(0, None, 0, None), called |-> called]

\* ecall_halt with PAUSE leaving pc at the halt instruction
ecall_halt_pause_stays(s, insn) ==
    CASE insn.a0 = "TERMINATE" ->
            EcallOk(s, OpCodeResult(s.pc, Some(ExitCode("Halted", 0)), 0, None), FALSE)
      [] insn.a0 = "PAUSE" ->
            EcallOk(s, OpCodeResult(s.pc, Some(ExitCode("Paused", 0)), 0, None), FALSE)
      [] OTHER -> EcallErr(s, "IllegalHaltType", FALSE)

ecall_halt(s, insn) ==
    CASE insn.a0 = "TERMINATE" ->
            EcallOk(s, OpCodeResult(s.pc, Some(ExitCode("Halted", 0)), 0, None), FALSE)
      [] insn.a0 = "PAUSE" ->
            EcallOk(s, OpCodeResult(s.pc + WORD_SIZE, Some(ExitCode("Paused", 0)), 0, None), FALSE)
      [] OTHER -> EcallErr(s, "IllegalHaltType", FALSE)

ecall_output(s, insn) ==
    EcallOk(s, OpCodeResult(s.pc + WORD_SIZE, None, 0, None), FALSE)

\* the state written to out_state_ptr
ShaDigest(m, count) == (m.image.mem[DataPage] + count + 1) % 3

ecall_sha(s, insn) ==
    EcallOk([s EXCEPT !.monitor =
                store_region(load_page(@, DataPage), DataPage, ShaDigest(@, insn.a4))],
            OpCodeResult(s.pc + WORD_SIZE, None, SHA_CYCLES * insn.a4, None), FALSE)

\* h is what the handler does on this call ("ok" or "err"), hc the number of
\* calls it has received before
\* the handler's answer to its call number hc + 1: the buffer and (a0, a1)
HandlerRecord(to_guest_words, hc) ==
    [to_guest |-> [i \in 1 .. to_guest_words |-> hc + 1],
     regs |-> <<hc + 1, to_guest_words>>]

\* store_region(to_guest_ptr, to_guest), store_register(REG_A0 / REG_A1)
StoreSyscall(m, rec) ==
    store_register(
        store_register(
            IF rec.to_guest # <<>> THEN store_region(m, DataPage, rec.to_guest[1]) ELSE m,
            "a0", rec.regs[1]),
        "a1", rec.regs[2])

ecall_software(s, insn, h, hc) ==
    IF insn.a2 # "known"
    THEN EcallErr([s EXCEPT !.monitor = load_page(@, NamePage)], "UnknownSyscall", FALSE)
    ELSE IF h = "err"
    THEN EcallErr([s EXCEPT !.monitor = load_page(@, NamePage)], "SyscallHandlerError", TRUE)
    ELSE EcallOk([s EXCEPT !.monitor =
                     StoreSyscall(load_page(@, NamePage), HandlerRecord(insn.a1, hc))],
                 OpCodeResult(s.pc + WORD_SIZE, None,
                              1 + align_up(insn.a1, WORD_SIZE) + 1,
                              Some(HandlerRecord(insn.a1, hc))),
                 TRUE)

ecall(s, insn, h, hc) ==
    CASE insn.t0 = "HALT" -> ecall_halt(s, insn)
      [] insn.t0 = "OUTPUT" -> ecall_output(s, insn)
      [] insn.t0 = "SOFTWARE" -> ecall_software(s, insn, h, hc)
      [] insn.t0 = "SHA" -> ecall_sha(s, insn)
      [] OTHER -> EcallErr(s, "UnknownEcall", FALSE)

\* InstructionExecutor::step on a non-ecall instruction, with the write-back
\* of the register it changed
execute(s, insn) ==
    LET m == s.monitor
        rd == m.image.regs["rd"]
        cnt == m.image.regs["cnt"]
    IN CASE insn.major = "LOOP" ->
              EcallOk([s EXCEPT !.monitor = store_register(m, "cnt", cnt + 1)],
                      OpCodeResult(IF cnt + 1 < LoopCount THEN 0 ELSE s.pc + WORD_SIZE,
                                   None, 0, None), FALSE)
         [] insn.major = "LOAD" ->
              EcallOk([s EXCEPT !.monitor =
                          store_register(load_page(m, DataPage), "rd", m.image.mem[DataPage])],
                      OpCodeResult(s.pc + WORD_SIZE, None, 0, None), FALSE)
         [] insn.major = "STORE" ->
              EcallOk([s EXCEPT !.monitor = store_region(m, DataPage, (rd + 1) % 3)],
                      OpCodeResult(s.pc + WORD_SIZE, None, 0, None), FALSE)
         [] OTHER ->  \* JAL to the entry point
              EcallOk(s, OpCodeResult(0, None, 0, None), FALSE)

\* OpCode::decode
decode(insn) ==
    [ok |-> insn.major # "ILLEGAL", insn |-> insn, major |-> insn.major,
     cycles |-> OpCodeCycles(insn)]

----------------------------------------------------------------------------
(* Executor::advance, split, step *)

\* advance that does not commit the monitor
advance_without_commit(s, opcode, op_result) ==
    [self |-> [s EXCEPT !.pc = op_result.pc,
                        !.insn_counter = @ + 1,
                        !.body_cycles = @ + opcode.cycles + op_result.extra_cycles,
                        !.segment_cycle = InitCycles + total_page_read_cycles(s.monitor)
                                          + s.body_cycles + opcode.cycles
                                          + op_result.extra_cycles],
     exit_code |-> op_result.exit_code]

advance(s, opcode, op_result) ==
    LET body == s.body_cycles + opcode.cycles + op_result.extra_cycles
        total_page_read == total_page_read_cycles(s.monitor)
        s1 == [s EXCEPT !.pc = op_result.pc,
                        !.insn_counter = @ + 1,
                        !.body_cycles = body,
                        !.segment_cycle = InitCycles + total_page_read + body]
    IN [self |-> [s1 EXCEPT !.monitor = commit(@, session_cycle(s1))],
        exit_code |-> op_result.exit_code]

\* split that also drops the cached op
split_drops_cached_op(s) ==
    [s EXCEPT !.pre_image = s.monitor.image,
              !.body_cycles = 0,
              !.insn_counter = 0,
              !.segment_cycle = InitCycles,
              !.pre_pc = s.pc,
              !.monitor = [clear_segment(@) EXCEPT !.op_result = None]]

\* split that keeps the pre_image of the segment before
split_keeps_pre_image(s) ==
    [s EXCEPT !.body_cycles = 0,
              !.insn_counter = 0,
              !.segment_cycle = InitCycles,
              !.pre_pc = s.pc,
              !.monitor = clear_segment(@)]

split(s) ==
    [s EXCEPT !.pre_image = s.monitor.image,
              !.body_cycles = 0,
              !.insn_counter = 0,
              !.segment_cycle = InitCycles,
              !.pre_pc = s.pc,
              !.monitor = clear_segment(@)]

\* what one call of step gives: the executor after it, the Result
\* (kind "ok" with an Option<ExitCode>, or kind "err"), and what happened:
\* the instruction fetched, whether restore_op was reached and gave an op,
\* the op of the instruction executed in this call (if any), whether the
\* handler was invoked, the op committed (if any), the events given to the
\* trace callback, the value of total_pending_cycles when it was computed
StepRes(s, kind, exit_code, err, insn, reached, replayed, executed, called, committed, events) ==
    [self |-> s, kind |-> kind, exit_code |-> exit_code, err |-> err,
     insn |-> insn, reached |-> reached, replayed |-> replayed,
     executed |-> executed, called |-> called, committed |-> committed,
     events |-> events, pending |-> None]

\* step that commits the monitor before it looks at the segment limit
step_commit_or_split_commits_first(s2, opcode, x, events) ==
    IF total_pending_cycles(s2, opcode) > get_segment_limit
    THEN [StepRes([s2 EXCEPT !.monitor = commit(@, session_cycle(s2))], "ok",
                  Some(ExitCode("SystemSplit", s2.insn_counter)), "",
                  Some(opcode.insn), TRUE, FALSE, Some(x.op), x.called, None, events)
          EXCEPT !.pending = Some(total_pending_cycles(s2, opcode))]
    ELSE [StepRes(advance(s2, opcode, x.op).self, "ok",
                  advance(s2, opcode, x.op).exit_code, "", Some(opcode.insn),
                  TRUE, FALSE, Some(x.op), x.called, Some(x.op), events)
          EXCEPT !.pending = Some(total_pending_cycles(s2, opcode))]

\* step, from the check of total_pending_cycles on: s2 is the executor after
\* save_op, x the outcome of the instruction
step_commit_or_split(s2, opcode, x, events) ==
    IF total_pending_cycles(s2, opcode) > get_segment_limit
    THEN [StepRes(s2, "ok", Some(ExitCode("SystemSplit", s2.insn_counter)), "",
                  Some(opcode.insn), TRUE, FALSE, Some(x.op), x.called, None, events)
          EXCEPT !.pending = Some(total_pending_cycles(s2, opcode))]
    ELSE [StepRes(advance(s2, opcode, x.op).self, "ok",
                  advance(s2, opcode, x.op).exit_code, "", Some(opcode.insn),
                  TRUE, FALSE, Some(x.op), x.called, Some(x.op), events)
          EXCEPT !.pending = Some(total_pending_cycles(s2, opcode))]

\* the events handed to the trace callback for the instruction at s2.pc
TraceEvents(s2) ==
    <<[ev |-> "InstructionStart", at |-> s2.pc, value |-> session_cycle(s2)]>>
    \o s2.monitor.trace_writes

\* step, from save_op on: x is the outcome of the ecall or of the
\* instruction executor
step_executed(opcode, x) ==
    IF ~x.ok
    THEN StepRes(x.self, "err", None, x.err, Some(opcode.insn),
                 TRUE, FALSE, None, x.called, None, <<>>)
    ELSE step_commit_or_split([x.self EXCEPT !.monitor = save_op(@, x.op)], opcode, x,
                              TraceEvents(x.self))

\* step that executes the instruction again instead of taking the cached op
step_decoded_executes_again(s1, opcode, h, hc) ==
    IF ~opcode.ok
    THEN StepRes(s1, "err", None, "DecodeError", Some(opcode.insn),
                 FALSE, FALSE, None, FALSE, None, <<>>)
    ELSE step_executed(opcode,
                       IF opcode.major = "ECALL" THEN ecall(s1, opcode.insn, h, hc)
                       ELSE execute(s1, opcode.insn))

\* step that hands the events of a replayed instruction to the callback again
step_decoded_traces_replay(s1, opcode, h, hc) ==
    IF ~opcode.ok
    THEN StepRes(s1, "err", None, "DecodeError", Some(opcode.insn),
                 FALSE, FALSE, None, FALSE, None, <<>>)
    ELSE IF restore_op(s1.monitor) # None
    THEN StepRes(advance(s1, opcode, restore_op(s1.monitor)[1]).self, "ok",
                 advance(s1, opcode, restore_op(s1.monitor)[1]).exit_code, "",
                 Some(opcode.insn), TRUE, TRUE, None, FALSE, restore_op(s1.monitor),
                 TraceEvents(s1))
    ELSE step_executed(opcode,
                       IF opcode.major = "ECALL" THEN ecall(s1, opcode.insn, h, hc)
                       ELSE execute(s1, opcode.insn))

\* step, from the decoded instruction on: s1 is the executor after the fetch
step_decoded(s1, opcode, h, hc) ==
    IF ~opcode.ok
    THEN StepRes(s1, "err", None, "DecodeError", Some(opcode.insn),
                 FALSE, FALSE, None, FALSE, None, <<>>)
    ELSE IF restore_op(s1.monitor) # None
    THEN StepRes(advance(s1, opcode, restore_op(s1.monitor)[1]).self, "ok",
                 advance(s1, opcode, restore_op(s1.monitor)[1]).exit_code, "",
                 Some(opcode.insn), TRUE, TRUE, None, FALSE, restore_op(s1.monitor), <<>>)
    ELSE step_executed(opcode,
                       IF opcode.major = "ECALL" THEN ecall(s1, opcode.insn, h, hc)
                       ELSE execute(s1, opcode.insn))

\* the result of a step, turned into SessionLimit when it is no error
AsSessionLimit(r) ==
    IF r.kind = "err" THEN r
    ELSE [r EXCEPT !.exit_code = Some(ExitCode("SessionLimit", 0))]

\* step that looks at the session limit only once the instruction is done
step_limit_after_instruction(s, h, hc) ==
    IF SessionLimitExceeded(s)
    THEN AsSessionLimit(step_decoded([s EXCEPT !.monitor = load_u32(@, s.pc).m],
                                     decode(load_u32(s.monitor, s.pc).insn), h, hc))
    ELSE step_decoded([s EXCEPT !.monitor = load_u32(@, s.pc).m],
                      decode(load_u32(s.monitor, s.pc).insn), h, hc)

step(s, h, hc) ==
    IF SessionLimitExceeded(s)
    THEN StepRes(s, "ok", Some(ExitCode("SessionLimit", 0)), "", None,
                 FALSE, FALSE, None, FALSE, None, <<>>)
    ELSE step_decoded([s EXCEPT !.monitor = load_u32(@, s.pc).m],
                      decode(load_u32(s.monitor, s.pc).insn), h, hc)

----------------------------------------------------------------------------
(* Executor::run *)

\* Segment::new; h is history kept with the segment, not a field of Segment
Segment(pre_image_, post_image_id, pre_pc_, faults, syscalls, exit_code, po2, index, h) ==
    [pre_image |-> pre_image_, post_image_id |-> post_image_id, pre_pc |-> pre_pc_,
     faults |-> faults, syscalls |-> syscalls, exit_code |-> exit_code,
     po2 |-> po2, index |-> index, h |-> h]

\* finalization that copies the faults instead of taking them
finalize_keeps_faults(s, exit_code, h) ==
    [s EXCEPT !.monitor = [@ EXCEPT !.image = hash_pages(@), !.syscalls = <<>>],
              !.segments = Append(@,
                  Segment(s.pre_image, get_root(hash_pages(s.monitor.image)), s.pre_pc,
                          s.monitor.faults, s.monitor.syscalls, exit_code,
                          log2_ceil(next_power_of_two(total_cycles(s))),
                          Len(s.segments), h))]

\* finalization that records SystemSplit whatever the exit code
finalize_as_split(s, exit_code, h) ==
    [s EXCEPT !.monitor = [@ EXCEPT !.image = hash_pages(@), !.syscalls = <<>>,
                                    !.faults = NoFaults],
              !.segments = Append(@,
                  Segment(s.pre_image, get_root(hash_pages(s.monitor.image)), s.pre_pc,
                          s.monitor.faults, s.monitor.syscalls,
                          ExitCode("SystemSplit", s.insn_counter),
                          log2_ceil(next_power_of_two(total_cycles(s))),
                          Len(s.segments), h))]

\* finalization that numbers the segments from one
finalize_index_from_one(s, exit_code, h) ==
    [s EXCEPT !.monitor = [@ EXCEPT !.image = hash_pages(@), !.syscalls = <<>>,
                                    !.faults = NoFaults],
              !.segments = Append(@,
                  Segment(s.pre_image, get_root(hash_pages(s.monitor.image)), s.pre_pc,
                          s.monitor.faults, s.monitor.syscalls, exit_code,
                          log2_ceil(next_power_of_two(total_cycles(s))),
                          Len(s.segments) + 1, h))]

\* the body of `if let Some(exit_code) = self.step()?` up to the push
finalize(s, exit_code, h) ==
    LET total == total_cycles(s)
        image == hash_pages(s.monitor.image)
        post_image_id == get_root(image)
        seg == Segment(s.pre_image, post_image_id, s.pre_pc, s.monitor.faults,
                       s.monitor.syscalls, exit_code,
                       log2_ceil(next_power_of_two(total)), Len(s.segments), h)
    IN [s EXCEPT !.monitor = [@ EXCEPT !.image = image, !.syscalls = <<>>,
                                       !.faults = NoFaults],
                 !.segments = Append(@, seg)]

\* run without the assertion on total_cycles
AssertLeftOut(s) == TRUE

\* assert!(total_cycles <= (1 << self.env.segment_limit_po2))
AssertHolds(s) == total_cycles(s) <= Pow2(SegmentLimitPo2)

Session(segs, journal_, exit_code, via) ==
    [kind |-> "session", segments |-> segs, journal |-> journal_,
     exit_code |-> exit_code, err |-> "", via |-> via]

RunError(err) ==
    [kind |-> "error", segments |-> <<>>, journal |-> <<>>,
     exit_code |-> ExitCode("None", 0), err |-> err, via |-> "local"]

NoResult ==
    [kind |-> "none", segments |-> <<>>, journal |-> <<>>,
     exit_code |-> ExitCode("None", 0), err |-> "", via |-> "local"]

----------------------------------------------------------------------------
(* History *)

\* pages an instruction touches: its fetch and its loads; its stores
TouchedReads(insn) ==
    {CodePage}
    \cup (IF insn.major = "LOAD" THEN {DataPage} ELSE {})
    \cup (IF insn.major = "ECALL" /\ insn.t0 = "SHA" THEN {DataPage} ELSE {})
    \cup (IF insn.major = "ECALL" /\ insn.t0 = "SOFTWARE" THEN {NamePage} ELSE {})

TouchedWrites(insn) ==
    (IF insn.major = "STORE" THEN {DataPage} ELSE {})
    \cup (IF insn.major = "ECALL" /\ insn.t0 = "SHA" THEN {DataPage} ELSE {})
    \cup (IF insn.major = "ECALL" /\ insn.t0 = "SOFTWARE" /\ insn.a1 > 0
          THEN {DataPage} ELSE {})

EmptySegLog == [first_pc |-> None, n |-> 0, reads |-> {}, writes |-> {}]

RetTag(r) ==
    IF r.kind = "err" THEN "Err"
    ELSE IF r.exit_code = None THEN "None" ELSE r.exit_code[1].tag

NoStep ==
    [tag |-> "NoStep", prev_tag |-> "NoStep", exit_code |-> None, err |-> "",
     insn |-> None, reached |-> FALSE, replayed |-> FALSE, executed |-> None,
     called |-> FALSE, committed |-> None, cached_before |-> None,
     pending |-> None, nexec |-> 0, ncommit |-> 0,
     run |-> 0,
     before |-> [pc |-> 0, insn_counter |-> 0, body_cycles |-> 0,
                 segment_cycle |-> 0, monitor |-> <<>>],
     after |-> [pc |-> 0, insn_counter |-> 0, body_cycles |-> 0,
                segment_cycle |-> 0, monitor |-> <<>>]]

Snapshot(s) ==
    [pc |-> s.pc, insn_counter |-> s.insn_counter, body_cycles |-> s.body_cycles,
     segment_cycle |-> s.segment_cycle, monitor |-> s.monitor]

\* run.paused: where the last Session returned by run_loop stopped when it
\* ended with Paused

\* the record of a call of step: r is its outcome, s the executor before it
StepRecord(s, r) ==
    [tag |-> RetTag(r), prev_tag |-> last.tag, exit_code |-> r.exit_code,
     err |-> r.err, insn |-> r.insn, reached |-> r.reached,
     replayed |-> r.replayed, executed |-> r.executed, called |-> r.called,
     committed |-> r.committed, cached_before |-> s.monitor.op_result,
     pending |-> r.pending,
     nexec |-> last.nexec + Len(r.executed),
     ncommit |-> last.ncommit + Len(r.committed),
     run |-> run.n,
     before |-> Snapshot(s), after |-> Snapshot(r.self)]

\* the instructions committed since the last finalization
LogCommit(log, s, r) ==
    IF r.committed = None THEN log
    ELSE [first_pc |-> IF log.first_pc = None THEN Some(s.pc) ELSE log.first_pc,
          n |-> log.n + 1,
          reads |-> log.reads \cup TouchedReads(r.insn[1]),
          writes |-> log.writes \cup TouchedWrites(r.insn[1])]

\* what the trace callback has received: the number of instructions it was
\* told of, the events of the last one, the cycle of the one before, the
\* calls of run in which the two were executed
NoTrace == [n |-> 0, events |-> <<>>, prev_cycle |-> None, run |-> 0, prev_run |-> 0]

Deliver(t, events) ==
    IF events = <<>> THEN t
    ELSE [n |-> t.n + 1, events |-> events,
          prev_cycle |-> IF t.events = <<>> THEN None ELSE Some(t.events[1].value),
          run |-> run.n, prev_run |-> t.run]

\* history kept with a finalized segment
SegHistory(log, s) ==
    [log |-> log, trigger_pc |-> pc, end_pc |-> s.pc,
     total_cycles |-> total_cycles(s),
     total_fault_cycles |-> total_fault_cycles(s.monitor), run |-> run.n,
     first |-> (segments = <<>>), paused |-> run.paused]

\* the syscall records of a list of segments, in segment order
RECURSIVE SyscallsOf(_)
SyscallsOf(segs) ==
    IF segs = <<>> THEN <<>> ELSE Head(segs).syscalls \o SyscallsOf(Tail(segs))

----------------------------------------------------------------------------
(* Actions *)

Init ==
    /\ \E prog \in Programs :
          /\ pre_image = NewImage(prog)
          /\ monitor = NewMonitor(NewImage(prog))
    /\ pre_pc = 0
    /\ pc = 0
    /\ body_cycles = 0
    /\ segment_cycle = InitCycles
    /\ segments = <<>>
    /\ insn_counter = 0
    /\ session_limit \in {None, Some(SessionLimitSmall)}
    /\ hcalls = 0
    /\ herrs = 0
    /\ journal = <<>>
    /\ run = [state |-> "idle", n |-> 0, paused |-> None]
    /\ result = NoResult
    /\ last = NoStep
    /\ seg_log = EmptySegLog
    /\ issued = <<>>
    /\ delivered = <<>>
    /\ trace = NoTrace

\* the state after construction, for the programs of RetryPrograms
RetryInit ==
    /\ \E prog \in RetryPrograms :
          /\ pre_image = NewImage(prog)
          /\ monitor = NewMonitor(NewImage(prog))
    /\ pre_pc = 0
    /\ pc = 0
    /\ body_cycles = 0
    /\ segment_cycle = InitCycles
    /\ segments = <<>>
    /\ insn_counter = 0
    /\ session_limit \in {None, Some(SessionLimitSmall)}
    /\ hcalls = 0
    /\ herrs = 0
    /\ journal = <<>>
    /\ run = [state |-> "idle", n |-> 0, paused |-> None]
    /\ result = NoResult
    /\ last = NoStep
    /\ seg_log = EmptySegLog
    /\ issued = <<>>
    /\ delivered = <<>>
    /\ trace = NoTrace

CanCallRun ==
    /\ run.state \in {"idle", "returned", "failed"}
    /\ run.n < MaxRuns

\* run that looks at BONSAI_DOGFOOD_URL only after clear_session and the
\* reset of the journal
RunBonsaiAfterClear ==
    /\ CanCallRun
    /\ run' = [run EXCEPT !.state = "returned", !.n = @ + 1]
    /\ result' = Session(<<>>, <<>>, ExitCode("Halted", 0), "bonsai")
    /\ monitor' = clear_session(monitor)
    /\ journal' = <<>>
    /\ UNCHANGED <<pre_image, pre_pc, pc, body_cycles, segment_cycle,
                   segments, insn_counter, session_limit, hcalls, herrs,
                   last, seg_log, issued, delivered, trace>>

\* run with BONSAI_DOGFOOD_URL set: the session is the proof id
RunBonsai ==
    /\ CanCallRun
    /\ run' = [run EXCEPT !.state = "returned", !.n = @ + 1]
    /\ result' = Session(<<>>, <<>>, ExitCode("Halted", 0), "bonsai")
    /\ UNCHANGED <<pre_image, monitor, pre_pc, pc, body_cycles, segment_cycle,
                   segments, insn_counter, session_limit, hcalls, herrs, journal,
                   last, seg_log, issued, delivered, trace>>

\* run up to the start of run_loop
RunBegin ==
    /\ CanCallRun
    /\ run' = [run EXCEPT !.state = "running", !.n = @ + 1]
    /\ monitor' = clear_session(monitor)
    /\ journal' = <<>>
    /\ result' = NoResult
    /\ UNCHANGED <<pre_image, pre_pc, pc, body_cycles, segment_cycle, segments,
                   insn_counter, session_limit, hcalls, herrs, last, seg_log,
                   issued, delivered, trace>>

HandlerChoices ==
    {"ok"} \cup (IF herrs < MaxHandlerErrors /\ hcalls \in {0, HandlerFailCall}
                THEN {"err"} ELSE {})

\* run_loop is iterating.  Without a session limit the run is followed up to
\* MaxSegments segments; with one, up to MaxSegments + MaxRuns segments, which
\* is more than the limit lets it produce
Running ==
    /\ run.state = "running"
    /\ Len(segments) < (IF session_limit = None THEN MaxSegments
                        ELSE MaxSegments + MaxRuns)

\* what every iteration of run_loop does to the handler, the journal and
\* the history
Bookkeeping(r) ==
    /\ last' = StepRecord(Self, r)
    /\ hcalls' = IF r.called THEN hcalls + 1 ELSE hcalls
    /\ herrs' = IF r.called /\ r.kind = "err" THEN herrs + 1 ELSE herrs
    /\ trace' = Deliver(trace, r.events)
    /\ UNCHANGED session_limit

HandlerWrote(r) == r.called /\ r.kind = "ok"

\* step()? fails: run returns the error
IterError ==
    /\ Running
    /\ \E h \in HandlerChoices :
          \E r \in {step(Self, h, hcalls)} :
          /\ r.kind = "err"
          /\ SetSelf(r.self)
          /\ Bookkeeping(r)
          /\ run' = [run EXCEPT !.state = "failed"]
          /\ result' = RunError(r.err)
          /\ UNCHANGED <<journal, seg_log, issued, delivered>>

\* step gives None: the loop goes on
IterContinue ==
    /\ Running
    /\ \E h \in HandlerChoices :
          \E r \in {step(Self, h, hcalls)} :
          /\ r.kind = "ok"
          /\ r.exit_code = None
          /\ SetSelf(r.self)
          /\ Bookkeeping(r)
          /\ journal' = IF HandlerWrote(r) THEN Append(journal, hcalls + 1) ELSE journal
          /\ issued' = IF HandlerWrote(r)
                       THEN Append(issued, HandlerRecord(r.insn[1].a1, hcalls))
                       ELSE issued
          /\ seg_log' = LogCommit(seg_log, Self, r)
          /\ UNCHANGED <<run, result, delivered>>

\* step gives an exit code and the assertion on total_cycles fails
IterAssertFails ==
    /\ Running
    /\ \E h \in HandlerChoices :
          \E r \in {step(Self, h, hcalls)} :
          /\ r.kind = "ok"
          /\ r.exit_code # None
          /\ ~AssertHolds(r.self)
          /\ SetSelf(r.self)
          /\ Bookkeeping(r)
          /\ journal' = IF HandlerWrote(r) THEN Append(journal, hcalls + 1) ELSE journal
          /\ issued' = IF HandlerWrote(r)
                       THEN Append(issued, HandlerRecord(r.insn[1].a1, hcalls))
                       ELSE issued
          /\ seg_log' = LogCommit(seg_log, Self, r)
          /\ run' = [run EXCEPT !.state = "panicked"]
          /\ result' = NoResult
          /\ UNCHANGED delivered

\* ExitCode::SystemSplit(_) => self.split()
IterSplit ==
    /\ Running
    /\ \E h \in HandlerChoices :
          \E r \in {step(Self, h, hcalls)} :
          /\ r.kind = "ok"
          /\ r.exit_code # None
          /\ r.exit_code[1].tag = "SystemSplit"
          /\ AssertHolds(r.self)
          /\ SetSelf(split(finalize(r.self, r.exit_code[1], SegHistory(seg_log, r.self))))
          /\ Bookkeeping(r)
          /\ journal' = IF HandlerWrote(r) THEN Append(journal, hcalls + 1) ELSE journal
          /\ issued' = IF HandlerWrote(r)
                       THEN Append(issued, HandlerRecord(r.insn[1].a1, hcalls))
                       ELSE issued
          /\ seg_log' = EmptySegLog
          /\ UNCHANGED <<run, result, delivered>>

\* ExitCode::SessionLimit => bail!("Session limit exceeded")
IterSessionLimit ==
    /\ Running
    /\ \E h \in HandlerChoices :
          \E r \in {step(Self, h, hcalls)} :
          /\ r.kind = "ok"
          /\ r.exit_code # None
          /\ r.exit_code[1].tag = "SessionLimit"
          /\ AssertHolds(r.self)
          /\ SetSelf(finalize(r.self, r.exit_code[1], SegHistory(seg_log, r.self)))
          /\ Bookkeeping(r)
          /\ seg_log' = EmptySegLog
          /\ run' = [run EXCEPT !.state = "failed"]
          /\ result' = RunError("Session limit exceeded")
          /\ UNCHANGED <<journal, issued, delivered>>

\* run that returns on Paused without the split
IterPausedWithoutSplit ==
    /\ Running
    /\ \E h \in HandlerChoices :
          \E r \in {step(Self, h, hcalls)} :
          /\ r.kind = "ok"
          /\ r.exit_code # None
          /\ r.exit_code[1].tag = "Paused"
          /\ AssertHolds(r.self)
          /\ \E s2 \in {finalize(r.self, r.exit_code[1],
                                 SegHistory(LogCommit(seg_log, Self, r), r.self))} :
                /\ SetSelf([s2 EXCEPT !.segments = <<>>])
                /\ result' = Session(s2.segments, journal, r.exit_code[1], "local")
                /\ delivered' = delivered \o SyscallsOf(s2.segments)
                /\ run' = [run EXCEPT !.state = "returned",
                                      !.paused = Some(
                                          [root |-> s2.segments[Len(s2.segments)].post_image_id,
                                           pc |-> r.self.pc])]
          /\ Bookkeeping(r)
          /\ seg_log' = EmptySegLog
          /\ journal' = <<>>
          /\ UNCHANGED issued

\* ExitCode::Paused => split, leave the loop, hand the segments over
IterPaused ==
    /\ Running
    /\ \E h \in HandlerChoices :
          \E r \in {step(Self, h, hcalls)} :
          /\ r.kind = "ok"
          /\ r.exit_code # None
          /\ r.exit_code[1].tag = "Paused"
          /\ AssertHolds(r.self)
          /\ \E s2 \in {split(finalize(r.self, r.exit_code[1],
                                       SegHistory(LogCommit(seg_log, Self, r), r.self)))} :
                /\ SetSelf([s2 EXCEPT !.segments = <<>>])
                /\ result' = Session(s2.segments, journal, r.exit_code[1], "local")
                /\ delivered' = delivered \o SyscallsOf(s2.segments)
                /\ run' = [run EXCEPT !.state = "returned",
                                      !.paused = Some(
                                          [root |-> s2.segments[Len(s2.segments)].post_image_id,
                                           pc |-> r.self.pc])]
          /\ Bookkeeping(r)
          /\ seg_log' = EmptySegLog
          /\ journal' = <<>>
          /\ UNCHANGED issued

\* ExitCode::Halted(_) => leave the loop, hand the segments over
IterHalted ==
    /\ Running
    /\ \E h \in HandlerChoices :
          \E r \in {step(Self, h, hcalls)} :
          /\ r.kind = "ok"
          /\ r.exit_code # None
          /\ r.exit_code[1].tag = "Halted"
          /\ AssertHolds(r.self)
          /\ \E s2 \in {finalize(r.self, r.exit_code[1],
                                 SegHistory(LogCommit(seg_log, Self, r), r.self))} :
                /\ SetSelf([s2 EXCEPT !.segments = <<>>])
                /\ result' = Session(s2.segments, journal, r.exit_code[1], "local")
                /\ delivered' = delivered \o SyscallsOf(s2.segments)
          /\ Bookkeeping(r)
          /\ seg_log' = EmptySegLog
          /\ run' = [run EXCEPT !.state = "returned", !.paused = None]
          /\ journal' = <<>>
          /\ UNCHANGED issued

Iter ==
    \/ IterError
    \/ IterContinue
    \/ IterAssertFails
    \/ IterSplit
    \/ IterSessionLimit
    \/ IterPaused
    \/ IterHalted

Next ==
    \/ RunBonsai
    \/ RunBegin
    \/ IterError
    \/ IterContinue
    \/ IterAssertFails
    \/ IterSplit
    \/ IterSessionLimit
    \/ IterPaused
    \/ IterHalted

Spec == Init /\ [][Next]_vars

\* the loop of run keeps iterating until it returns
LiveSpec == Init /\ [][Next]_vars /\ WF_vars(Iter)

\* the executor on the programs that split before they reach an ecall
RetrySpec == RetryInit /\ [][Next]_vars

TypeOK ==
    /\ run.state \in {"idle", "running", "returned", "failed", "panicked"}
    /\ Len(segments) <= MaxSegments + MaxRuns

----------------------------------------------------------------------------
(* Properties *)

\* every segment finalized so far: those in flight and those of the result
FinalizedSegments ==
    {segments[i] : i \in 1 .. Len(segments)}
    \cup {result.segments[i] : i \in 1 .. Len(result.segments)}

IsHalt(insn, a0) == insn.major = "ECALL" /\ insn.t0 = "HALT" /\ insn.a0 = a0

\* C1: for every segment run finalizes, whatever its exit code and whatever
\* the instruction mix, total_cycles is at most 1 << segment_limit_po2: the
\* assertion in run never fails.
C1_AssertionNeverFails == run.state # "panicked"

\* C2: in a Session, each segment starts where the one before it stopped: the
\* root of its pre_image is the post_image_id of the segment before, its
\* pre_pc is the pc of the instruction whose step ended the segment before,
\* the first instruction it commits is that instruction, and every
\* instruction executed is committed once (at most the cached one is pending).
C2_SegmentsChain ==
    /\ result.kind = "session" =>
          \A i \in 1 .. Len(result.segments) - 1 :
              LET a == result.segments[i]
                  b == result.segments[i + 1]
              IN /\ get_root(b.pre_image) = a.post_image_id
                 /\ ImageRoot(b.pre_image) = a.post_image_id
                 /\ b.pre_pc = a.h.trigger_pc
                 /\ b.pre_pc = a.h.end_pc
                 /\ b.h.log.first_pc = Some(b.pre_pc)
    /\ last.nexec = last.ncommit + Len(monitor.op_result)

\* a Session of two segments whose second one starts from a changed image
C2_Witness ==
    /\ result.kind = "session"
    /\ Len(result.segments) >= 2
    /\ result.segments[2].pre_image.root # result.segments[1].pre_image.root
    /\ result.segments[2].h.log.n >= 1

SessionShape ==
    /\ result.exit_code.tag \in {"Paused", "Halted"}
    /\ Len(result.segments) >= 1
    /\ result.segments[Len(result.segments)].exit_code = result.exit_code
    /\ \A i \in 1 .. Len(result.segments) - 1 :
          result.segments[i].exit_code.tag = "SystemSplit"

ReplayedAsCached ==
    LET op == last.cached_before[1] IN
    /\ last.committed = last.cached_before
    /\ last.after.pc = op.pc
    /\ last.exit_code = op.exit_code
    /\ last.after.body_cycles
         = last.before.body_cycles + OpCodeCycles(last.insn[1]) + op.extra_cycles
    /\ last.after.monitor.syscalls = last.before.monitor.syscalls \o op.syscall
    /\ last.after.monitor.op_result = None
    /\ last.executed = None

\* C4 as stated: at the start of any step the monitor holds a cached
\* OpCodeResult exactly if the step before returned SystemSplit; the
\* replayed instruction commits with the cached result, and the cache is
\* empty afterwards.
C4_Original ==
    last.tag # "NoStep" =>
        /\ (last.cached_before # None) <=> (last.prev_tag = "SystemSplit")
        /\ last.replayed => ReplayedAsCached

\* C4 amended: at any step that gets as far as restore_op (the session limit
\* is not exceeded), restore_op yields a cached OpCodeResult exactly if the
\* step before returned SystemSplit; the replayed instruction commits with
\* the cached result, and the cache is empty afterwards.  After a
\* SystemSplit the cache is always filled.
C4_ReplayCache ==
    /\ last.reached =>
          /\ last.replayed <=> (last.prev_tag = "SystemSplit")
          /\ last.replayed <=> (last.cached_before # None)
          /\ last.replayed => ReplayedAsCached
          /\ ~last.replayed /\ last.committed # None => last.after.monitor.op_result = None
    /\ (last.tag # "NoStep" /\ last.prev_tag = "SystemSplit") => last.cached_before # None

\* a SOFTWARE ecall replayed in the segment after the one it split
C4_Witness ==
    /\ last.replayed
    /\ last.committed[1].syscall # None
    /\ last.prev_tag = "SystemSplit"

C7_RunReturns ==
    (run.state = "running" /\ session_limit # None)
        ~> (run.state \in {"returned", "failed"})

\* C8: a step that starts with session_cycle > session_limit returns
\* SessionLimit and changes nothing (no fetch, nothing executed or
\* committed), and run then fails: it returns no Session.
C8_SessionLimitIsFatal ==
    last.tag = "SessionLimit" =>
        /\ last.after = last.before
        /\ last.insn = None /\ last.executed = None /\ last.committed = None
        /\ last.run = run.n =>
              /\ run.state \in {"failed", "panicked"}
              /\ result.kind # "session"
              /\ run.state = "failed" => result = RunError("Session limit exceeded")

\* a run failed by the session limit with instructions committed before
C8_Witness ==
    /\ last.tag = "SessionLimit"
    /\ last.run = run.n
    /\ run.state = "failed"
    /\ last.ncommit > 0
    /\ Len(segments) >= 2

\* C9: a committed HALT with TERMINATE gives Halted(0) and leaves pc; with
\* PAUSE it gives Paused and pc + 4; the segment and the Session end with
\* that exit code.  Any other A0, and any T0 other than HALT, OUTPUT,
\* SOFTWARE or SHA, fails the step and the run, with no exit code.
C9_Halt ==
    last.insn # None =>
        LET insn == last.insn[1] IN
        /\ (IsHalt(insn, "TERMINATE") /\ last.committed # None) =>
              /\ last.exit_code = Some(ExitCode("Halted", 0))
              /\ last.after.pc = last.before.pc
        /\ (IsHalt(insn, "PAUSE") /\ last.committed # None) =>
              /\ last.exit_code = Some(ExitCode("Paused", 0))
              /\ last.after.pc = last.before.pc + WORD_SIZE
        /\ ((IsHalt(insn, "TERMINATE") \/ IsHalt(insn, "PAUSE"))
             /\ last.committed # None /\ last.run = run.n) =>
              /\ run.state = "returned"
              /\ result.kind = "session"
              /\ result.exit_code = last.exit_code[1]
              /\ result.segments[Len(result.segments)].exit_code = last.exit_code[1]
        /\ (IsHalt(insn, "TERMINATE") \/ IsHalt(insn, "PAUSE")) =>
              last.tag \in {"Halted", "Paused", "SystemSplit"}
        /\ IsHalt(insn, "OTHER") =>
              /\ last.tag = "Err" /\ last.err = "IllegalHaltType"
              /\ last.exit_code = None
              /\ last.after.pc = last.before.pc
              /\ last.run = run.n => run.state = "failed" /\ result.kind = "error"
        /\ (insn.major = "ECALL" /\ insn.t0 \notin {"HALT", "OUTPUT", "SOFTWARE", "SHA"}) =>
              /\ last.tag = "Err" /\ last.err = "UnknownEcall"
              /\ last.exit_code = None
              /\ last.run = run.n => run.state = "failed" /\ result.kind = "error"

\* a pause committed after other instructions
C9_Witness ==
    /\ last.tag = "Paused"
    /\ last.before.pc > 0
    /\ pc = last.before.pc + WORD_SIZE
    /\ result.exit_code.tag = "Paused"

\* C10: the faults of a finalized segment are the pages touched by the
\* instructions committed in it (the replayed one included), and its
\* total_fault_cycles is (1 + CYCLES_PER_PAGE) per read fault and per write
\* fault.
C10_Faults ==
    \A seg \in FinalizedSegments :
        /\ seg.faults.reads = seg.h.log.reads
        /\ seg.faults.writes = seg.h.log.writes
        /\ seg.h.total_fault_cycles
             = Cardinality(seg.faults.reads) * (1 + CYCLES_PER_PAGE)
               + Cardinality(seg.faults.writes) * (1 + CYCLES_PER_PAGE)

\* a finalized segment begun by a replay, with read and write faults
C10_Witness ==
    \E i \in 2 .. Len(segments) :
        /\ segments[i - 1].exit_code.tag = "SystemSplit"
        /\ segments[i].faults.writes # {}
        /\ segments[i].faults.reads # {}
        /\ segments[i].h.log.n >= 2

\* C11: in every Session returned by run, and in the segments in flight, the
\* segment at position i (counted from 0) has index i.
C11_IndicesMonotonic ==
    /\ \A i \in 1 .. Len(result.segments) : result.segments[i].index = i - 1
    /\ \A i \in 1 .. Len(segments) : segments[i].index = i - 1

\* a Session of at least two segments
C11_Witness ==
    /\ result.kind = "session"
    /\ Len(result.segments) >= 2
    /\ result.segments[Len(result.segments)].index = Len(result.segments) - 1

\* the call of run that has just returned was short-circuited
BonsaiReturn == run'.n = run.n + 1 /\ result'.via = "bonsai"

C13_PendingOverApproximates ==
    (last.committed # None /\ last.pending # None) =>
        last.pending[1] >= total_cycles(last.after)

AsTraceEvent(w) ==
    [ev |-> IF w.kind = "mem" THEN "MemorySet" ELSE "RegisterSet",
     at |-> w.at, value |-> w.value]

\* C15: the callback is told of every executed instruction once, also of one
\* whose step returned SystemSplit and which is replayed: what it got last
\* is InstructionStart with the pc of the last instruction executed,
\* followed by that instruction's RegisterSet and MemorySet events only.
C15_TraceOrder ==
    /\ trace.n = last.nexec
    /\ trace.events # <<>> =>
          /\ trace.events[1].ev = "InstructionStart"
          /\ \A i \in 2 .. Len(trace.events) :
                trace.events[i].ev \in {"RegisterSet", "MemorySet"}
    /\ last.executed # None =>
          /\ trace.events[1].at = last.before.pc
          /\ trace.events[1].value >= last.before.segment_cycle
    /\ (last.executed # None /\ last.tag = "SystemSplit") =>
          /\ Len(trace.events) = 1 + Len(last.after.monitor.pending_writes)
          /\ \A i \in 1 .. Len(last.after.monitor.pending_writes) :
                trace.events[i + 1] = AsTraceEvent(last.after.monitor.pending_writes[i])
    /\ last.replayed =>
          /\ trace.events # <<>>
          /\ trace.events[1].at = last.before.pc

\* an instruction with writes replayed after a split: its events were handed
\* over by the step that split
C15_Witness ==
    /\ last.replayed
    /\ Len(trace.events) >= 2
    /\ trace.events[1].at = last.before.pc
    /\ trace.n > 1

\* run has just returned a Session it produced itself
ReturnedLocal(tag) ==
    /\ run.state = "returned"
    /\ result.kind = "session"
    /\ result.via = "local"
    /\ result.exit_code.tag = tag

\* C16: after run returns Paused the executor has been split: body_cycles
\* and insn_counter are 0, segment_cycle is init_cycles, pre_pc is the pc
\* after the pause ecall, pre_image is the current image with the root of
\* the paused segment's post_image_id; the first segment of a following run
\* starts from that root and that pc.  After run returns Halted there was no
\* split: counters, pre_pc and pre_image are those of the halted segment.
C16_PausedIsSplit ==
    /\ ReturnedLocal("Paused") =>
          /\ body_cycles = 0
          /\ insn_counter = 0
          /\ segment_cycle = InitCycles
          /\ pre_pc = pc
          /\ pc = last.before.pc + WORD_SIZE
          /\ pre_image = monitor.image
          /\ get_root(pre_image) = result.segments[Len(result.segments)].post_image_id
          /\ ImageRoot(pre_image) = result.segments[Len(result.segments)].post_image_id
          /\ run.paused = Some([root |-> get_root(pre_image), pc |-> pc])
    /\ \A seg \in FinalizedSegments :
          (seg.h.first /\ seg.h.paused # None) =>
              /\ get_root(seg.pre_image) = seg.h.paused[1].root
              /\ seg.pre_pc = seg.h.paused[1].pc
    /\ ReturnedLocal("Halted") =>
          /\ body_cycles = last.after.body_cycles
          /\ insn_counter = last.after.insn_counter
          /\ insn_counter > 0
          /\ segment_cycle = last.after.segment_cycle
          /\ pre_pc = result.segments[Len(result.segments)].pre_pc
          /\ pre_image = result.segments[Len(result.segments)].pre_image

\* a Session returned by a run that was resumed after Paused
C16_Witness ==
    /\ ReturnedLocal("Halted")
    /\ run.n = 2
    /\ result.segments[1].h.first
    /\ result.segments[1].h.paused # None
    /\ result.segments[1].pre_pc > 0

\* C17: a SOFTWARE ecall asking for to_guest_words words gets extra cycles
\* 1 + chunks + 1 with chunks = ceil(to_guest_words / WORD_SIZE).
C17_SoftwareCycles ==
    (/\ last.executed # None
     /\ last.insn[1].major = "ECALL"
     /\ last.insn[1].t0 = "SOFTWARE") =>
        last.executed[1].extra_cycles
            = 1 + ((last.insn[1].a1 + WORD_SIZE - 1) \div WORD_SIZE) + 1

\* C18: the po2 of every finalized segment is the least exponent whose power
\* of two is at least the segment's total_cycles, and it is at most
\* segment_limit_po2.
C18_Po2 ==
    \A seg \in FinalizedSegments :
        /\ Pow2(seg.po2) >= seg.h.total_cycles
        /\ seg.po2 > 0 => Pow2(seg.po2 - 1) < seg.h.total_cycles
        /\ seg.po2 <= SegmentLimitPo2

\* a segment ended by a split with total_cycles a power of two, and a later
\* one with total_cycles that is none
C18_Witness ==
    \E a, b \in FinalizedSegments :
        /\ a.exit_code.tag = "SystemSplit"
        /\ Pow2(a.po2) = a.h.total_cycles
        /\ b.exit_code.tag # "SystemSplit"
        /\ Pow2(b.po2) > b.h.total_cycles

\* the step after a split took the cached op and committed it, with no look
\* at the segment limit
ReplayCommitted ==
    /\ last.replayed
    /\ last.committed # None
    /\ last.committed = last.cached_before
    /\ last.executed = None
    /\ last.pending = None
    /\ last.tag # "SystemSplit"
    /\ last.after.insn_counter = 1

\* C19 as stated: the step after a step that returned SystemSplit always
\* commits the cached instruction and never returns SystemSplit; every
\* segment that follows a SystemSplit segment commits an instruction.
C19_Original ==
    /\ (last.tag # "NoStep" /\ last.prev_tag = "SystemSplit") => ReplayCommitted
    /\ \A i \in 2 .. Len(segments) :
          segments[i - 1].exit_code.tag = "SystemSplit" => segments[i].h.log.n >= 1

\* C19 amended: the step after a step that returned SystemSplit either
\* returns SessionLimit and commits nothing, or commits the cached
\* instruction without a look at the segment limit; it never returns
\* SystemSplit.  Every segment that follows a SystemSplit segment commits an
\* instruction unless it is the segment finalized for SessionLimit, and no
\* two SystemSplit segments in a row are for the same instruction.
C19_ReplayCommits ==
    /\ (last.tag # "NoStep" /\ last.prev_tag = "SystemSplit") =>
          IF last.reached THEN ReplayCommitted
          ELSE /\ last.tag = "SessionLimit"
               /\ last.committed = None
               /\ last.after = last.before
    /\ \A i \in 2 .. Len(segments) :
          segments[i - 1].exit_code.tag = "SystemSplit" =>
              \/ segments[i].h.log.n >= 1
              \/ /\ segments[i].exit_code.tag = "SessionLimit"
                 /\ segments[i].h.log.n = 0
    /\ \A i \in 2 .. Len(result.segments) :
          result.segments[i - 1].exit_code.tag = "SystemSplit" =>
              result.segments[i].h.log.n >= 1

\* the replay of an instruction in a segment that is itself ended by a split
C19_Witness ==
    /\ Len(segments) >= 2
    /\ segments[1].exit_code.tag = "SystemSplit"
    /\ segments[2].exit_code.tag = "SystemSplit"
    /\ segments[2].h.log.first_pc = Some(segments[1].h.trigger_pc)
    /\ last.prev_tag = "SystemSplit"
    /\ last.replayed

\* C20: while run_loop iterates, session_cycle never decreases from one step
\* to the next, a split included; the cycles of successive InstructionStart
\* events of one call of run never decrease.
C20_SessionCycleMonotone ==
    /\ [][(run.state = "running" /\ run'.state = "running") =>
             session_cycle(Self') >= session_cycle(Self)]_vars
    /\ []((trace.prev_cycle # None /\ trace.prev_run = trace.run) =>
             trace.events[1].value >= trace.prev_cycle[1])

\* two InstructionStart events of one run, one before a split and one after
C20_Witness ==
    /\ trace.prev_cycle # None
    /\ trace.prev_run = trace.run
    /\ trace.prev_cycle[1] < get_segment_limit
    /\ trace.events[1].value >= get_segment_limit + InitCycles
    /\ Len(segments) >= 1

\* once run has returned, with a Session or with an error, the executor
\* holds no finalized segments
NoSegmentsRetained ==
    run.state \in {"returned", "failed"} => segments = <<>>

\* every segment of a Session was finalized by the call of run that returned
\* the Session, and the first one has index 0
SessionIsOwn ==
    result.kind = "session" =>
        /\ \A i \in 1 .. Len(result.segments) : result.segments[i].h.run = run.n
        /\ result.segments # <<>> => result.segments[1].index = 0

\* C21: whenever run returns, with a Session or with an error (SessionLimit,
\* decode error, unknown ecall or syscall, handler error), the executor
\* retains no in-flight segments, so segments produced during one call of
\* run never appear in the Session of a later call and the first segment of
\* every Session has index 0.
\* The code hands self.segments over only on the Ok path (the swap after
\* run_loop()?): a run that fails keeps what it has pushed, and the Session
\* of the next run that succeeds begins with those segments.
C21_RunLeavesNothing ==
    /\ NoSegmentsRetained
    /\ SessionIsOwn

====
